---- MODULE Spec2Model ----
(***************************************************************************)
(* A model of the PnL analytics engine, backend/src/analytics/             *)
(* pnl_analytics.py (class PnLAnalytics).                                  *)
(*                                                                         *)
(* Two specifications share the variables of this module:                  *)
(*   LedgerSpec  the loop of process_ticker_trades, one iteration per      *)
(*               step, over every trade sequence of one ticker;            *)
(*   Spec        one PnLAnalytics instance: the constructor, and then any  *)
(*               sequence of calls of its public methods.                  *)
(*                                                                         *)
(* Prices and P&L values are Python floats in the source.  The model       *)
(* computes them exactly, as normalised fractions <<n, d>> with d > 0; the *)
(* pair <<0, 0>> stands for NaN (a missing value of a pandas column).      *)
(* Rounding of binary floating point is outside the model.                 *)
(***************************************************************************)
EXTENDS Integers, Sequences, FiniteSets, TLC

\* ------------------------------------------------------------- bounds
\* LedgerSpec: the trades of one ticker
MaxTrades == 3
MaxShares == 2
MaxPrice == 3

Shares == (0 - MaxShares)..MaxShares
Prices == 1..MaxPrice

\* Spec: the tables handed to the constructor
MaxDate == 3
MaxTradeRows == 3
MaxPriceRows == 2
\* the calls of one instance that run the position ledger
MaxRuns == 2

Dates == 1..MaxDate
\* the executions a trade row may carry: buy 1 @ 1, sell 1 @ 2, sell 2 @ 3
Executions == {<<1, 1>>, <<0 - 1, 2>>, <<0 - 2, 3>>}
ClosePrices == {1, 3}

\* ------------------------------------------------- exact float arithmetic
Abs(x) == IF x < 0 THEN 0 - x ELSE x

Min(a, b) == IF a <= b THEN a ELSE b

RECURSIVE GCD(_, _)
GCD(a, b) == IF b = 0 THEN a ELSE GCD(b, a % b)

NaN == <<0, 0>>

IsNaN(x) == x[2] = 0

\* the fraction n/d in lowest terms with a positive denominator
Rat(n, d) ==
    IF d = 0 THEN NaN
    ELSE LET g == GCD(Abs(n), Abs(d))
             s == IF d < 0 THEN 0 - 1 ELSE 1
         IN  <<(s * n) \div g, (s * d) \div g>>

Num(i) == <<i, 1>>

Zero == <<0, 1>>

RAdd(x, y) ==
    IF IsNaN(x) \/ IsNaN(y) THEN NaN
    ELSE Rat(x[1] * y[2] + y[1] * x[2], x[2] * y[2])

RSub(x, y) ==
    IF IsNaN(x) \/ IsNaN(y) THEN NaN
    ELSE Rat(x[1] * y[2] - y[1] * x[2], x[2] * y[2])

RMul(x, y) ==
    IF IsNaN(x) \/ IsNaN(y) THEN NaN
    ELSE Rat(x[1] * y[1], x[2] * y[2])

RDiv(x, y) ==
    IF IsNaN(x) \/ IsNaN(y) THEN NaN
    ELSE Rat(x[1] * y[2], x[2] * y[1])

\* ============================================================ the ledger
\* One iteration of the loop of process_ticker_trades: the state after the
\* trade (trade_shares, trade_price) met the state (position_size,
\* position_basis).  Each branch of the if/elif/else is an operator.

\* position_size == 0
OpenPosition_keepbasis(position_size, position_basis, trade_shares, trade_price) ==
    [position_size |-> trade_shares,
     position_basis |-> position_basis,
     pnl |-> Zero]

OpenPosition(position_size, position_basis, trade_shares, trade_price) ==
    [position_size |-> trade_shares,
     position_basis |-> trade_price,
     pnl |-> Zero]

\* position_size > 0 and trade_shares > 0
AddToLong_unweighted(position_size, position_basis, trade_shares, trade_price) ==
    [position_size |-> position_size + trade_shares,
     position_basis |-> RDiv(RAdd(position_basis, trade_price), Num(2)),
     pnl |-> Zero]

AddToLong(position_size, position_basis, trade_shares, trade_price) ==
    LET total_cost == RAdd(RMul(Num(position_size), position_basis),
                           RMul(Num(trade_shares), trade_price))
        new_size == position_size + trade_shares
    IN  [position_size |-> new_size,
         position_basis |-> RDiv(total_cost, Num(new_size)),
         pnl |-> Zero]

\* position_size > 0 and trade_shares <= 0
SellFromLong_all(position_size, position_basis, trade_shares, trade_price) ==
    LET new_size == position_size + trade_shares
    IN  [position_size |-> new_size,
         position_basis |-> IF new_size < 0 THEN trade_price
                            ELSE IF new_size = 0 THEN Zero
                            ELSE position_basis,
         pnl |-> RMul(RSub(trade_price, position_basis),
                      Num(Abs(trade_shares)))]

SellFromLong(position_size, position_basis, trade_shares, trade_price) ==
    LET shares_sold == Min(position_size, Abs(trade_shares))
        new_size == position_size + trade_shares
    IN  [position_size |-> new_size,
         position_basis |-> IF new_size < 0 THEN trade_price
                            ELSE IF new_size = 0 THEN Zero
                            ELSE position_basis,
         pnl |-> RMul(RSub(trade_price, position_basis), Num(shares_sold))]

\* position_size < 0 and trade_shares < 0
AddToShort_realizes(position_size, position_basis, trade_shares, trade_price) ==
    LET total_proceeds == RAdd(RMul(Num(Abs(position_size)), position_basis),
                               RMul(Num(Abs(trade_shares)), trade_price))
        new_size == position_size + trade_shares
    IN  [position_size |-> new_size,
         position_basis |-> RDiv(total_proceeds, Num(Abs(new_size))),
         pnl |-> RMul(RSub(position_basis, trade_price), Num(Abs(trade_shares)))]

AddToShort(position_size, position_basis, trade_shares, trade_price) ==
    LET total_proceeds == RAdd(RMul(Num(Abs(position_size)), position_basis),
                               RMul(Num(Abs(trade_shares)), trade_price))
        new_size == position_size + trade_shares
    IN  [position_size |-> new_size,
         position_basis |-> RDiv(total_proceeds, Num(Abs(new_size))),
         pnl |-> Zero]

\* position_size < 0 and trade_shares >= 0
CoverShort_keepbasis(position_size, position_basis, trade_shares, trade_price) ==
    LET shares_covered == Min(Abs(position_size), trade_shares)
    IN  [position_size |-> position_size + trade_shares,
         position_basis |-> position_basis,
         pnl |-> RMul(RSub(position_basis, trade_price), Num(shares_covered))]

\* covering with the P&L taken on all shares bought, not on those covered
CoverShort_all(position_size, position_basis, trade_shares, trade_price) ==
    LET new_size == position_size + trade_shares
    IN  [position_size |-> new_size,
         position_basis |-> IF new_size > 0 THEN trade_price
                            ELSE IF new_size = 0 THEN Zero
                            ELSE position_basis,
         pnl |-> RMul(RSub(position_basis, trade_price), Num(trade_shares))]

CoverShort(position_size, position_basis, trade_shares, trade_price) ==
    LET shares_covered == Min(Abs(position_size), trade_shares)
        new_size == position_size + trade_shares
    IN  [position_size |-> new_size,
         position_basis |-> IF new_size > 0 THEN trade_price
                            ELSE IF new_size = 0 THEN Zero
                            ELSE position_basis,
         pnl |-> RMul(RSub(position_basis, trade_price), Num(shares_covered))]

\* the body of the for loop
process_trade(position_size, position_basis, trade_shares, trade_price) ==
    IF position_size = 0
    THEN OpenPosition(position_size, position_basis, trade_shares, trade_price)
    ELSE IF position_size > 0
    THEN IF trade_shares > 0
         THEN AddToLong(position_size, position_basis, trade_shares, trade_price)
         ELSE SellFromLong(position_size, position_basis, trade_shares, trade_price)
    ELSE IF trade_shares < 0
         THEN AddToShort(position_size, position_basis, trade_shares, trade_price)
         ELSE CoverShort(position_size, position_basis, trade_shares, trade_price)

\* the three columns process_ticker_trades appends to a row of group_df
analytics_columns(r) ==
    [position_size_after_trade |-> r.position_size,
     position_basis_after_trade |-> r.position_basis,
     realized_pnl |-> r.pnl]

\* process_ticker_trades from row i of group_df on: the rows of result_df
RECURSIVE ledger_rows(_, _, _, _)
ledger_rows(group_df, i, size, basis) ==
    IF i > Len(group_df) THEN <<>>
    ELSE LET trade == group_df[i]
             r == process_trade(size, basis, trade.shares, Num(trade.price))
         IN  <<trade @@ analytics_columns(r)>>
                \o ledger_rows(group_df, i + 1, r.position_size, r.position_basis)

process_ticker_trades(group_df) == ledger_rows(group_df, 1, 0, Zero)

\* ====================================================== the pandas tables
\* A table (DataFrame) is the sequence of its rows, a row a record of its
\* columns.  trade_date holds day numbers: pd.to_datetime has been applied.

\* the tickers, in the order pandas sorts them
TickerOrder == <<"AAPL", "GOOG">>

Tickers == {TickerOrder[k] : k \in 1..Len(TickerOrder)}

TickerRank(t) == CHOOSE k \in 1..Len(TickerOrder) : TickerOrder[k] = t

\* the value of a column as sort_values compares it
SortValue(row, column) ==
    IF column = "ticker" THEN TickerRank(row.ticker) ELSE row[column]

\* row a sorts strictly before row b under the columns by, the first first
RowLess(a, b, by) ==
    \E k \in 1..Len(by) :
        /\ \A j \in 1..(k - 1) : SortValue(a, by[j]) = SortValue(b, by[j])
        /\ SortValue(a, by[k]) < SortValue(b, by[k])

\* a sort that puts rows of equal keys in reverse input order
sort_values_reversing(df, by) ==
    LET place(i) == 1 + Cardinality({j \in 1..Len(df) :
                        \/ RowLess(df[j], df[i], by)
                        \/ (~RowLess(df[i], df[j], by) /\ j > i)})
    IN  [k \in 1..Len(df) |-> df[CHOOSE i \in 1..Len(df) : place(i) = k]]

\* DataFrame.sort_values(by) with two or more columns: pandas sorts by
\* np.lexsort of the column codes, which keeps the input order of rows
\* whose keys are equal
sort_values(df, by) ==
    LET place(i) == 1 + Cardinality({j \in 1..Len(df) :
                        \/ RowLess(df[j], df[i], by)
                        \/ (~RowLess(df[i], df[j], by) /\ j < i)})
    IN  [k \in 1..Len(df) |-> df[CHOOSE i \in 1..Len(df) : place(i) = k]]

\* the rows of one group of df.groupby("ticker"), in the order of df
group_of(df, ticker) == SelectSeq(df, LAMBDA row : row.ticker = ticker)

\* the keys of df.groupby("ticker"), ascending
group_keys(df) ==
    SelectSeq(TickerOrder, LAMBDA t : \E i \in 1..Len(df) : df[i].ticker = t)

\* pd.concat(tables, ignore_index=True) of a non-empty list of tables
RECURSIVE concat(_)
concat(tables) ==
    IF tables = <<>> THEN <<>> ELSE Head(tables) \o concat(Tail(tables))

\* what a method hands back: a table, or the exception it raised
Returns(rows) == [raised |-> "", rows |-> rows]

Raises(exception) == [raised |-> exception, rows |-> <<>>]

\* pd.concat raises ValueError("No objects to concatenate") on an empty list
concat_or_raise(tables) ==
    IF tables = <<>> THEN Raises("ValueError") ELSE Returns(concat(tables))

\* Series.ffill(): a missing value takes the last value before it
ffill(column) ==
    [i \in 1..Len(column) |->
        IF ~IsNaN(column[i]) THEN column[i]
        ELSE LET known == {j \in 1..i : ~IsNaN(column[j])}
             IN  IF known = {} THEN NaN
                 ELSE column[CHOOSE j \in known : \A k \in known : k <= j]]

\* Series.bfill(): a missing value takes the first value after it
bfill(column) ==
    [i \in 1..Len(column) |->
        IF ~IsNaN(column[i]) THEN column[i]
        ELSE LET known == {j \in i..Len(column) : ~IsNaN(column[j])}
             IN  IF known = {} THEN NaN
                 ELSE column[CHOOSE j \in known : \A k \in known : j <= k]]

\* Series.fillna(0)
fillna0(x) == IF IsNaN(x) THEN Zero ELSE x

\* ============================================================ the engine
\* the constructor with a sort that does not keep the order of equal keys
init_trades_df_reversing(trades) ==
    sort_values_reversing(
        [i \in 1..Len(trades) |->
            [trade_date |-> trades[i].trade_date,
             ticker |-> trades[i].ticker,
             shares |-> trades[i].quantity,
             price |-> trades[i].price]],
        <<"trade_date", "ticker">>)

\* PnLAnalytics.__init__: the copy of the trades, quantity renamed to shares,
\* sorted by (trade_date, ticker)
init_trades_df(trades) ==
    sort_values(
        [i \in 1..Len(trades) |->
            [trade_date |-> trades[i].trade_date,
             ticker |-> trades[i].ticker,
             shares |-> trades[i].quantity,
             price |-> trades[i].price]],
        <<"trade_date", "ticker">>)

\* PnLAnalytics.__init__: the copy of the prices, sorted by (trade_date, ticker)
init_prices_df(prices) == sort_values(prices, <<"trade_date", "ticker">>)

\* PnLAnalytics.calculate_pnl_for_multiple_tickers
calculate_pnl_for_multiple_tickers(df0) ==
    LET df == sort_values(df0, <<"ticker", "trade_date">>)
        keys == group_keys(df)
    IN  IF \E i \in 1..Len(df) : ~({"shares", "price"} \subseteq DOMAIN df[i])
        THEN Raises("KeyError")
        ELSE concat_or_raise(
                 [g \in 1..Len(keys) |->
                     process_ticker_trades(group_of(df, keys[g]))])

\* resample_ticker without the reindex: the observed dates only
resample_ticker_observed_only(ticker_name, ticker_data) ==
    [k \in 1..Len(ticker_data) |->
        [trade_date |-> ticker_data[k].trade_date,
         ticker |-> ticker_name,
         close_price |-> Num(ticker_data[k].close_price)]]

\* resample_ticker with the two fills in the other order: bfill().ffill()
resample_ticker_bfill_first(ticker_name, ticker_data) ==
    LET index == {ticker_data[i].trade_date : i \in 1..Len(ticker_data)}
        start == CHOOSE d \in index : \A e \in index : d <= e
        end == CHOOSE d \in index : \A e \in index : e <= d
        reindexed ==
            [k \in 1..(end - start + 1) |->
                IF start + k - 1 \in index
                THEN Num(ticker_data[CHOOSE i \in 1..Len(ticker_data) :
                           ticker_data[i].trade_date = start + k - 1].close_price)
                ELSE NaN]
        close_price == ffill(bfill(reindexed))
    IN  [k \in 1..(end - start + 1) |->
            [trade_date |-> start + k - 1,
             ticker |-> ticker_name,
             close_price |-> close_price[k]]]

\* resample_ticker with a date range that ends one day after the last
\* observation
resample_ticker_extra_day(ticker_name, ticker_data) ==
    LET index == {ticker_data[i].trade_date : i \in 1..Len(ticker_data)}
        start == CHOOSE d \in index : \A e \in index : d <= e
        end == (CHOOSE d \in index : \A e \in index : e <= d) + 1
        reindexed ==
            [k \in 1..(end - start + 1) |->
                IF start + k - 1 \in index
                THEN Num(ticker_data[CHOOSE i \in 1..Len(ticker_data) :
                           ticker_data[i].trade_date = start + k - 1].close_price)
                ELSE NaN]
        close_price == bfill(ffill(reindexed))
    IN  [k \in 1..(end - start + 1) |->
            [trade_date |-> start + k - 1,
             ticker |-> ticker_name,
             close_price |-> close_price[k]]]

\* create_resampled_prices.resample_ticker
resample_ticker(ticker_name, ticker_data) ==
    LET index == {ticker_data[i].trade_date : i \in 1..Len(ticker_data)}
        start == CHOOSE d \in index : \A e \in index : d <= e
        end == CHOOSE d \in index : \A e \in index : e <= d
        reindexed ==
            [k \in 1..(end - start + 1) |->
                IF start + k - 1 \in index
                THEN Num(ticker_data[CHOOSE i \in 1..Len(ticker_data) :
                           ticker_data[i].trade_date = start + k - 1].close_price)
                ELSE NaN]
        close_price == bfill(ffill(reindexed))
    IN  [k \in 1..(end - start + 1) |->
            [trade_date |-> start + k - 1,
             ticker |-> ticker_name,
             close_price |-> close_price[k]]]

\* create_resampled_prices over groupby("ticker", sort=False): the groups in
\* the order in which the tickers first appear
create_resampled_prices_unsorted(prices) ==
    LET first == SelectSeq([i \in 1..Len(prices) |-> i],
                     LAMBDA i : \A j \in 1..(i - 1) :
                                    prices[j].ticker # prices[i].ticker)
        keys == [k \in 1..Len(first) |-> prices[first[k]].ticker]
    IN  concat_or_raise(
            [g \in 1..Len(keys) |->
                resample_ticker(keys[g], group_of(prices, keys[g]))])

\* PnLAnalytics.create_resampled_prices
create_resampled_prices(prices) ==
    LET keys == group_keys(prices)
    IN  concat_or_raise(
            [g \in 1..Len(keys) |->
                resample_ticker(keys[g], group_of(prices, keys[g]))])

\* resampled_prices.merge(trade_analytics, on=["trade_date", "ticker"],
\* how="left"): the rows of the left table in order, each once per matching
\* row of the right table, or once with missing values if there is none
merge_left_row(left, analytics) ==
    LET matches == SelectSeq(analytics, LAMBDA t :
                       t.trade_date = left.trade_date /\ t.ticker = left.ticker)
    IN  IF matches = <<>>
        THEN <<left @@ [shares |-> NaN, price |-> NaN,
                        position_size_after_trade |-> NaN,
                        position_basis_after_trade |-> NaN,
                        realized_pnl |-> NaN]>>
        ELSE [m \in 1..Len(matches) |->
                left @@ [shares |-> Num(matches[m].shares),
                         price |-> Num(matches[m].price),
                         position_size_after_trade |->
                             Num(matches[m].position_size_after_trade),
                         position_basis_after_trade |->
                             matches[m].position_basis_after_trade,
                         realized_pnl |-> matches[m].realized_pnl]]

merge_left(resampled_prices, analytics) ==
    concat([i \in 1..Len(resampled_prices) |->
               merge_left_row(resampled_prices[i], analytics)])

\* merged_data.groupby("ticker")[column].ffill(), for row i
group_ffill(merged_data, column, i) ==
    LET known == {j \in 1..i : /\ merged_data[j].ticker = merged_data[i].ticker
                               /\ ~IsNaN(merged_data[j][column])}
    IN  IF known = {} THEN NaN
        ELSE merged_data[CHOOSE j \in known : \A k \in known : k <= j][column]

\* pnl_history with the unrealized P&L computed from the merged columns as
\* they are before the forward fill
history_rows_unfilled(resampled_prices, analytics) ==
    LET merged_data == merge_left(resampled_prices, analytics)
        row(i) ==
            LET m == merged_data[i]
                size == group_ffill(merged_data, "position_size_after_trade", i)
                basis == group_ffill(merged_data, "position_basis_after_trade", i)
                realized_pnl == fillna0(group_ffill(merged_data, "realized_pnl", i))
                unrealized_pnl ==
                    RMul(RSub(m.close_price, m.position_basis_after_trade),
                         m.position_size_after_trade)
                total_pnl == RAdd(realized_pnl, unrealized_pnl)
            IN  [trade_date |-> m.trade_date,
                 ticker |-> m.ticker,
                 close_price |-> m.close_price,
                 shares |-> fillna0(m.shares),
                 trade_execution_price |-> fillna0(m.price),
                 position_size_after_trade |-> fillna0(size),
                 position_basis_after_trade |-> fillna0(basis),
                 realized_pnl |-> fillna0(realized_pnl),
                 unrealized_pnl |-> fillna0(unrealized_pnl),
                 total_pnl |-> fillna0(total_pnl)]
    IN  [i \in 1..Len(merged_data) |-> row(i)]

\* pnl_history with columns_to_fill short of the two computed columns
history_rows_computed_unfilled(resampled_prices, analytics) ==
    LET merged_data == merge_left(resampled_prices, analytics)
        row(i) ==
            LET m == merged_data[i]
                size == group_ffill(merged_data, "position_size_after_trade", i)
                basis == group_ffill(merged_data, "position_basis_after_trade", i)
                realized_pnl == fillna0(group_ffill(merged_data, "realized_pnl", i))
                unrealized_pnl == RMul(RSub(m.close_price, basis), size)
                total_pnl == RAdd(realized_pnl, unrealized_pnl)
            IN  [trade_date |-> m.trade_date,
                 ticker |-> m.ticker,
                 close_price |-> m.close_price,
                 shares |-> fillna0(m.shares),
                 trade_execution_price |-> fillna0(m.price),
                 position_size_after_trade |-> fillna0(size),
                 position_basis_after_trade |-> fillna0(basis),
                 realized_pnl |-> fillna0(realized_pnl),
                 unrealized_pnl |-> unrealized_pnl,
                 total_pnl |-> total_pnl]
    IN  [i \in 1..Len(merged_data) |-> row(i)]

\* PnLAnalytics.pnl_history, from the merge on
history_rows(resampled_prices, analytics) ==
    LET merged_data == merge_left(resampled_prices, analytics)
        row(i) ==
            LET m == merged_data[i]
                size == group_ffill(merged_data, "position_size_after_trade", i)
                basis == group_ffill(merged_data, "position_basis_after_trade", i)
                realized_pnl == fillna0(group_ffill(merged_data, "realized_pnl", i))
                unrealized_pnl == RMul(RSub(m.close_price, basis), size)
                total_pnl == RAdd(realized_pnl, unrealized_pnl)
            IN  [trade_date |-> m.trade_date,
                 ticker |-> m.ticker,
                 close_price |-> m.close_price,
                 shares |-> fillna0(m.shares),
                 trade_execution_price |-> fillna0(m.price),
                 position_size_after_trade |-> fillna0(size),
                 position_basis_after_trade |-> fillna0(basis),
                 realized_pnl |-> fillna0(realized_pnl),
                 unrealized_pnl |-> fillna0(unrealized_pnl),
                 total_pnl |-> fillna0(total_pnl)]
    IN  [i \in 1..Len(merged_data) |-> row(i)]

\* ------------------------------------------------------ maximum profit
\* None, as the value of a date or a price of a result
NoValue == 0 - 1

\* ndarray.argmax(): the first index of the greatest value
argmax(a) ==
    CHOOSE i \in 1..Len(a) :
        /\ \A k \in 1..Len(a) : a[k] <= a[i]
        /\ \A k \in 1..(i - 1) : a[k] < a[i]

\* ndarray.argmin(): the first index of the least value
argmin(a) ==
    CHOOSE i \in 1..Len(a) :
        /\ \A k \in 1..Len(a) : a[i] <= a[k]
        /\ \A k \in 1..(i - 1) : a[i] < a[k]

\* np.minimum.accumulate(a): the least value up to each index
minimum_accumulate(a) ==
    [i \in 1..Len(a) |-> LET head == SubSeq(a, 1, i) IN head[argmin(head)]]

\* PnLAnalytics._get_empty_profit_result
get_empty_profit_result(strategy) ==
    [buy_date |-> NoValue, sell_date |-> NoValue, max_profit |-> 0,
     buy_price |-> NoValue, sell_price |-> NoValue]

\* long_only without the test of max_profit <= 0
long_only_unchecked(prices, dates) ==
    LET reference_prices == minimum_accumulate(prices)
        profits == [i \in 1..Len(prices) |-> prices[i] - reference_prices[i]]
        max_profit_idx == argmax(profits)
        max_profit == profits[max_profit_idx]
        buy_idx == argmin(SubSeq(prices, 1, max_profit_idx))
        sell_idx == max_profit_idx
    IN  [buy_date |-> dates[buy_idx], sell_date |-> dates[sell_idx],
         max_profit |-> max_profit,
         buy_price |-> prices[buy_idx], sell_price |-> prices[sell_idx]]

\* long_only with the sell index taken for the last greatest profit
long_only_last_sell(prices, dates) ==
    LET reference_prices == minimum_accumulate(prices)
        profits == [i \in 1..Len(prices) |-> prices[i] - reference_prices[i]]
        max_profit_idx ==
            CHOOSE i \in 1..Len(profits) :
                /\ \A k \in 1..Len(profits) : profits[k] <= profits[i]
                /\ \A k \in (i + 1)..Len(profits) : profits[k] < profits[i]
        max_profit == profits[max_profit_idx]
        buy_idx == argmin(SubSeq(prices, 1, max_profit_idx))
        sell_idx == max_profit_idx
    IN  IF max_profit <= 0 THEN get_empty_profit_result("long_only")
        ELSE [buy_date |-> dates[buy_idx], sell_date |-> dates[sell_idx],
              max_profit |-> max_profit,
              buy_price |-> prices[buy_idx], sell_price |-> prices[sell_idx]]

\* the long_only branch of _calculate_max_profit_vectorized; TLA+ indexes
\* from 1 where numpy indexes from 0
long_only(prices, dates) ==
    LET reference_prices == minimum_accumulate(prices)
        profits == [i \in 1..Len(prices) |-> prices[i] - reference_prices[i]]
        max_profit_idx == argmax(profits)
        max_profit == profits[max_profit_idx]
        buy_idx == argmin(SubSeq(prices, 1, max_profit_idx))
        sell_idx == max_profit_idx
    IN  IF max_profit <= 0 THEN get_empty_profit_result("long_only")
        ELSE [buy_date |-> dates[buy_idx], sell_date |-> dates[sell_idx],
              max_profit |-> max_profit,
              buy_price |-> prices[buy_idx], sell_price |-> prices[sell_idx]]

\* the loop with "profit >= max_profit": the last greatest profit wins
RECURSIVE short_sale_loop_last(_, _, _)
short_sale_loop_last(prices, sell_idx, best) ==
    IF sell_idx > Len(prices) - 1 THEN best
    ELSE LET sell_price == prices[sell_idx]
             after == SubSeq(prices, sell_idx + 1, Len(prices))
             min_price_after_sell == after[argmin(after)]
             min_price_idx == sell_idx + argmin(after)
             profit == sell_price - min_price_after_sell
         IN  short_sale_loop_last(prices, sell_idx + 1,
                 IF profit >= best.max_profit
                 THEN [max_profit |-> profit, best_sell_idx |-> sell_idx,
                       best_buy_idx |-> min_price_idx]
                 ELSE best)

\* one iteration of "for sell_idx in range(len(prices) - 1)" of the
\* short_sale branch, and those after it
RECURSIVE short_sale_loop(_, _, _)
short_sale_loop(prices, sell_idx, best) ==
    IF sell_idx > Len(prices) - 1 THEN best
    ELSE LET sell_price == prices[sell_idx]
             after == SubSeq(prices, sell_idx + 1, Len(prices))
             min_price_after_sell == after[argmin(after)]
             min_price_idx == sell_idx + argmin(after)
             profit == sell_price - min_price_after_sell
         IN  short_sale_loop(prices, sell_idx + 1,
                 IF profit > best.max_profit
                 THEN [max_profit |-> profit, best_sell_idx |-> sell_idx,
                       best_buy_idx |-> min_price_idx]
                 ELSE best)

\* the short_sale branch over that loop
short_sale_last(prices, dates) ==
    LET best == short_sale_loop_last(prices, 1,
                    [max_profit |-> 0, best_sell_idx |-> 1, best_buy_idx |-> 1])
    IN  IF best.max_profit <= 0 THEN get_empty_profit_result("short_sale")
        ELSE [sell_date |-> dates[best.best_sell_idx],
              buy_date |-> dates[best.best_buy_idx],
              max_profit |-> best.max_profit,
              sell_price |-> prices[best.best_sell_idx],
              buy_price |-> prices[best.best_buy_idx]]

\* the short_sale branch of _calculate_max_profit_vectorized
short_sale(prices, dates) ==
    LET best == short_sale_loop(prices, 1,
                    [max_profit |-> 0, best_sell_idx |-> 1, best_buy_idx |-> 1])
    IN  IF best.max_profit <= 0 THEN get_empty_profit_result("short_sale")
        ELSE [sell_date |-> dates[best.best_sell_idx],
              buy_date |-> dates[best.best_buy_idx],
              max_profit |-> best.max_profit,
              sell_price |-> prices[best.best_sell_idx],
              buy_price |-> prices[best.best_buy_idx]]

\* PnLAnalytics._calculate_max_profit_vectorized
calculate_max_profit_vectorized(df, strategy) ==
    LET prices == [i \in 1..Len(df) |-> df[i].close_price]
        dates == [i \in 1..Len(df) |-> df[i].trade_date]
    IN  IF Len(df) < 2 THEN Returns(get_empty_profit_result(strategy))
        ELSE IF strategy = "long_only" THEN Returns(long_only(prices, dates))
        ELSE IF strategy = "short_sale" THEN Returns(short_sale(prices, dates))
        ELSE Raises("ValueError")

\* Series.unique(): the values in the order of their first appearance
unique(df, column) ==
    LET first == SelectSeq([i \in 1..Len(df) |-> i],
                     LAMBDA i : \A j \in 1..(i - 1) : df[j][column] # df[i][column])
    IN  [k \in 1..Len(first) |-> df[first[k]][column]]

\* the iteration that skips a ticker only if it has no price at all
profit_entry_single(df, ticker) ==
    LET ticker_prices == sort_values(group_of(df, ticker), <<"trade_date">>)
    IN  IF Len(ticker_prices) < 1 THEN <<>>
        ELSE <<[ticker |-> ticker,
                long_only |->
                    calculate_max_profit_vectorized(ticker_prices, "long_only").rows,
                short_sale |->
                    calculate_max_profit_vectorized(ticker_prices, "short_sale").rows]>>

\* one iteration of "for ticker in self.prices_df['ticker'].unique()": the
\* entry of results for the ticker, if it gets one
profit_entry(df, ticker) ==
    LET ticker_prices == sort_values(group_of(df, ticker), <<"trade_date">>)
    IN  IF Len(ticker_prices) < 2 THEN <<>>
        ELSE <<[ticker |-> ticker,
                long_only |->
                    calculate_max_profit_vectorized(ticker_prices, "long_only").rows,
                short_sale |->
                    calculate_max_profit_vectorized(ticker_prices, "short_sale").rows]>>

\* PnLAnalytics.find_maximum_profit_dates: the dict of results, as its
\* entries in the order they were inserted
find_maximum_profit_dates(df) ==
    LET tickers == unique(df, "ticker")
    IN  concat([k \in 1..Len(tickers) |-> profit_entry(df, tickers[k])])

\* the rows of the summary for one entry of the results, with the short-sale
\* profit taken as a percentage of the buy price
summary_rows_of_buy_price(ticker, strategies) ==
    LET long_only_ == strategies.long_only
        short_sale_ == strategies.short_sale
    IN  (IF long_only_.max_profit > 0
         THEN <<[ticker |-> ticker, strategy |-> "Long Only"] @@ long_only_ @@
                [profit_percentage |->
                    IF long_only_.buy_price # 0
                    THEN RMul(RDiv(Num(long_only_.max_profit),
                                   Num(long_only_.buy_price)), Num(100))
                    ELSE Zero]>>
         ELSE <<>>)
        \o
        (IF short_sale_.max_profit > 0
         THEN <<[ticker |-> ticker, strategy |-> "Short Sale"] @@ short_sale_ @@
                [profit_percentage |->
                    IF short_sale_.buy_price # 0
                    THEN RMul(RDiv(Num(short_sale_.max_profit),
                                   Num(short_sale_.buy_price)), Num(100))
                    ELSE Zero]>>
         ELSE <<>>)

\* one iteration of "for ticker, strategies in max_profit_data.items()" of
\* get_maximum_profit_summary: the rows it appends to summary_data
summary_rows(ticker, strategies) ==
    LET long_only_ == strategies.long_only
        short_sale_ == strategies.short_sale
    IN  (IF long_only_.max_profit > 0
         THEN <<[ticker |-> ticker, strategy |-> "Long Only"] @@ long_only_ @@
                [profit_percentage |->
                    IF long_only_.buy_price # 0
                    THEN RMul(RDiv(Num(long_only_.max_profit),
                                   Num(long_only_.buy_price)), Num(100))
                    ELSE Zero]>>
         ELSE <<>>)
        \o
        (IF short_sale_.max_profit > 0
         THEN <<[ticker |-> ticker, strategy |-> "Short Sale"] @@ short_sale_ @@
                [profit_percentage |->
                    IF short_sale_.sell_price # 0
                    THEN RMul(RDiv(Num(short_sale_.max_profit),
                                   Num(short_sale_.sell_price)), Num(100))
                    ELSE Zero]>>
         ELSE <<>>)

\* PnLAnalytics.get_maximum_profit_summary
get_maximum_profit_summary(df) ==
    LET max_profit_data == find_maximum_profit_dates(df)
    IN  concat([k \in 1..Len(max_profit_data) |->
                   summary_rows(max_profit_data[k].ticker, max_profit_data[k])])

\* ======================================= the tables and their columns
\* the columns of the table trade_data
TradeColumns == {"trade_date", "ticker", "quantity", "price"}

\* pd.DataFrame(rows) with its columns; pd.DataFrame() has neither
DataFrame(columns, rows) == [columns |-> columns, rows |-> rows]

\* DataFrame.rename(columns={"quantity": "shares"}) on one row
rename_quantity(row) ==
    [c \in (DOMAIN row \ {"quantity"}) \cup {"shares"} |->
        IF c = "shares" THEN row.quantity ELSE row[c]]

\* PnLAnalytics.__init__ on a trades table of any columns: self.trades_df
\* and self.prices_df, or the KeyError of the column the table does not have
PnLAnalytics(trades, prices) ==
    LET renamed == IF "quantity" \in trades.columns
                   THEN [i \in 1..Len(trades.rows) |->
                            rename_quantity(trades.rows[i])]
                   ELSE trades.rows
    IN  IF "trade_date" \notin trades.columns THEN Raises("KeyError")
        ELSE IF "ticker" \notin trades.columns THEN Raises("KeyError")
        ELSE Returns([trades_df |->
                          sort_values(renamed, <<"trade_date", "ticker">>),
                      prices_df |-> init_prices_df(prices)])

\* ================================================== GET /max_profit
\* the request without the query parameter ticker
NoTicker == "None"

\* HTTPException(status_code=500, ...)
HTTP500 == "HTTPException(status_code=500)"

\* summary_df[summary_df["ticker"] == ticker]; a summary of no rows has no
\* columns, and the selection of its column ticker raises
filter_by_ticker(summary_df, ticker) ==
    IF summary_df = <<>> THEN Raises("KeyError")
    ELSE Returns(group_of(summary_df, ticker))

\* summary_df.replace([inf, -inf], None).where(notnull, None)
\*     .to_dict(orient="records")
to_dict_records(rows) ==
    [i \in 1..Len(rows) |->
        [rows[i] EXCEPT !.profit_percentage =
            IF IsNaN(@) THEN NoValue ELSE @]]

\* get_maximum_profit_data(ticker, repo) with the rows the repository
\* returns: the records of the response, or the HTTPException
get_maximum_profit_data(ticker, trades, prices) ==
    LET trades_df == IF trades # <<>> THEN DataFrame(TradeColumns, trades)
                     ELSE DataFrame({}, <<>>)
        pnl_analytics == PnLAnalytics(trades_df, prices)
        summary_df == get_maximum_profit_summary(pnl_analytics.rows.prices_df)
        filtered == IF ticker # NoTicker
                    THEN filter_by_ticker(summary_df, ticker)
                    ELSE Returns(summary_df)
    IN  IF prices = <<>> THEN Returns(<<>>)
        ELSE IF pnl_analytics.raised # "" THEN Raises(HTTP500)
        ELSE IF filtered.raised # "" THEN Raises(HTTP500)
        ELSE Returns(to_dict_records(filtered.rows))

\* ============================================================== the state
VARIABLES
    \* process_ticker_trades, inside its loop (LedgerSpec)
    position_size,      \* the running position of the ticker
    position_basis,     \* the running basis of the ticker
    results,            \* the rows processed so far, with their new columns
    \* a PnLAnalytics instance and its caller (Spec)
    trades_in,          \* the caller's trades table, as passed to __init__
    trades_columns,     \* the columns of the caller's trades table
    prices_in,          \* the caller's prices table, as passed to __init__
    trades_df,          \* self.trades_df
    prices_df,          \* self.prices_df
    trade_analytics,    \* self.trade_analytics
    ledger_runs,        \* how many times the instance has run
                        \* calculate_pnl_for_multiple_tickers
    called,             \* the method called last
    arguments,          \* the arguments it was called with
    returned,           \* the table it returned
    raised              \* the exception it raised, "" if none

ledgerVars == <<position_size, position_basis, results>>

engineVars == <<trades_in, trades_columns, prices_in, trades_df, prices_df,
                trade_analytics, ledger_runs, called, arguments, returned,
                raised>>

vars == <<position_size, position_basis, results, trades_in, trades_columns,
          prices_in, trades_df, prices_df, trade_analytics, ledger_runs,
          called, arguments, returned, raised>>

\* self.trade_analytics = None
None == [computed |-> FALSE, rows |-> <<>>]

\* no instance exists
NoEngine ==
    /\ trades_in = <<>>
    /\ trades_columns = {}
    /\ prices_in = <<>>
    /\ trades_df = <<>>
    /\ prices_df = <<>>
    /\ trade_analytics = None
    /\ ledger_runs = 0
    /\ called = ""
    /\ arguments = <<>>
    /\ returned = <<>>
    /\ raised = ""

\* the loop of process_ticker_trades is not running
NoLedger ==
    /\ position_size = 0
    /\ position_basis = Zero
    /\ results = <<>>

\* ------------------------------------------------------------------ Spec
SeqsUpTo(S, n) == UNION {[1..k -> S] : k \in 0..n}

TradeRows ==
    {[trade_date |-> d, ticker |-> t, quantity |-> e[1], price |-> e[2]] :
        d \in Dates, t \in Tickers, e \in Executions}

\* the trades the caller may pass: any rows, in any order.  The longest
\* tables come with an empty prices table, which the trade analytics do not
\* read
ShortTradeTables == SeqsUpTo(TradeRows, MaxTradeRows - 1)

LongTradeTables == [1..MaxTradeRows -> TradeRows]

\* the prices the caller may pass: at most one observation per ticker and
\* date (the primary key of stock_prices), in any order
PriceTables ==
    {p \in SeqsUpTo([trade_date : Dates, ticker : Tickers,
                     close_price : ClosePrices], MaxPriceRows) :
        \A i, j \in 1..Len(p) :
            (p[i].trade_date = p[j].trade_date /\ p[i].ticker = p[j].ticker)
                => i = j}

\* PnLAnalytics(trades, prices)
Init ==
    /\ \/ trades_in \in ShortTradeTables /\ prices_in \in PriceTables
       \/ trades_in \in LongTradeTables /\ prices_in = <<>>
    /\ trades_columns = TradeColumns
    /\ trades_df = init_trades_df(trades_in)
    /\ prices_df = init_prices_df(prices_in)
    /\ trade_analytics = None
    /\ ledger_runs = 0
    /\ called = "__init__"
    /\ arguments = <<>>
    /\ returned = <<>>
    /\ raised = ""
    /\ NoLedger

\* the outcome r of the call of a method without arguments
Outcome(method, r) ==
    /\ called' = method
    /\ arguments' = <<>>
    /\ raised' = r.raised
    /\ returned' = r.rows

Call_calculate_trade_analytics ==
    LET r == calculate_pnl_for_multiple_tickers(trades_df)
    IN  /\ ledger_runs < MaxRuns
        /\ ledger_runs' = ledger_runs + 1
        /\ Outcome("calculate_trade_analytics", r)
        /\ trade_analytics' = IF r.raised = ""
                              THEN [computed |-> TRUE, rows |-> r.rows]
                              ELSE trade_analytics
        /\ UNCHANGED <<trades_in, trades_columns, prices_in, trades_df, prices_df>>
        /\ UNCHANGED ledgerVars

Call_create_resampled_prices ==
    /\ Outcome("create_resampled_prices", create_resampled_prices(prices_df))
    /\ UNCHANGED <<trades_in, trades_columns, prices_in, trades_df, prices_df,
                   trade_analytics, ledger_runs>>
    /\ UNCHANGED ledgerVars

\* pnl_history without the test of lines 79-80: the table is read as it is
Call_pnl_history_without_test ==
    LET analytics == Returns(trade_analytics.rows)
        resampled_prices == create_resampled_prices(prices_df)
    IN  /\ UNCHANGED <<trade_analytics, ledger_runs>>
        /\ Outcome("pnl_history",
               IF resampled_prices.raised # "" THEN resampled_prices
               ELSE Returns(history_rows(resampled_prices.rows, analytics.rows)))
        /\ UNCHANGED <<trades_in, trades_columns, prices_in, trades_df, prices_df>>
        /\ UNCHANGED ledgerVars

Call_pnl_history ==
    LET analytics == IF trade_analytics.computed
                     THEN Returns(trade_analytics.rows)
                     ELSE calculate_pnl_for_multiple_tickers(trades_df)
        resampled_prices == create_resampled_prices(prices_df)
    IN  /\ trade_analytics.computed \/ ledger_runs < MaxRuns
        /\ ledger_runs' = IF trade_analytics.computed
                          THEN ledger_runs
                          ELSE ledger_runs + 1
        /\ trade_analytics' = IF analytics.raised = ""
                              THEN [computed |-> TRUE, rows |-> analytics.rows]
                              ELSE trade_analytics
        /\ Outcome("pnl_history",
               IF analytics.raised # "" THEN analytics
               ELSE IF resampled_prices.raised # "" THEN resampled_prices
               ELSE Returns(history_rows(resampled_prices.rows, analytics.rows)))
        /\ UNCHANGED <<trades_in, trades_columns, prices_in, trades_df, prices_df>>
        /\ UNCHANGED ledgerVars

Next ==
    \/ Call_calculate_trade_analytics
    \/ Call_create_resampled_prices
    \/ Call_pnl_history

Spec == Init /\ [][Next]_vars

\* ------------------------------------------------------------ ProfitSpec
\* the most observations of the first ticker, the highest close price, and
\* the most observations of the second ticker
MaxSeries == 5

MaxClose == 5

MaxOtherSeries == 2

\* the second ticker closes at one price: a series without a profit
OtherCloses == {2}

Strategies == {"long_only", "short_sale", "both"}

\* the price rows of ticker t on the dates 1, 2, ... with the closes given,
\* the latest date first
LatestFirst(t, closes) ==
    [i \in 1..Len(closes) |->
        [trade_date |-> Len(closes) + 1 - i,
         ticker |-> t,
         close_price |-> closes[Len(closes) + 1 - i]]]

\* the prices the caller may pass: a series for each of the two tickers,
\* possibly empty or of one observation, not in the order of the dates
ProfitPriceTables ==
    {LatestFirst("GOOG", b) \o LatestFirst("AAPL", a) :
        a \in SeqsUpTo(1..MaxClose, MaxSeries),
        b \in SeqsUpTo(OtherCloses, MaxOtherSeries)}

\* PnLAnalytics(trades, prices) with a trades table of no rows
ProfitInit ==
    /\ trades_in = <<>>
    /\ prices_in \in ProfitPriceTables
    /\ trades_columns = TradeColumns
    /\ trades_df = init_trades_df(trades_in)
    /\ prices_df = init_prices_df(prices_in)
    /\ trade_analytics = None
    /\ ledger_runs = 0
    /\ called = "__init__"
    /\ arguments = <<>>
    /\ returned = <<>>
    /\ raised = ""
    /\ NoLedger

Call_find_maximum_profit_dates ==
    /\ Outcome("find_maximum_profit_dates",
               Returns(find_maximum_profit_dates(prices_df)))
    /\ UNCHANGED <<trades_in, trades_columns, prices_in, trades_df, prices_df,
                   trade_analytics, ledger_runs>>
    /\ UNCHANGED ledgerVars

\* _calculate_max_profit_vectorized(prices_df, strategy) on the instance's
\* prices of one ticker
Call_calculate_max_profit_vectorized ==
    /\ \E ticker \in Tickers, strategy \in Strategies :
          LET r == calculate_max_profit_vectorized(
                       group_of(prices_df, ticker), strategy)
          IN  /\ called' = "_calculate_max_profit_vectorized"
              /\ arguments' = [prices_df |-> group_of(prices_df, ticker),
                               strategy |-> strategy]
              /\ raised' = r.raised
              /\ returned' = r.rows
    /\ UNCHANGED <<trades_in, trades_columns, prices_in, trades_df, prices_df,
                   trade_analytics, ledger_runs>>
    /\ UNCHANGED ledgerVars

Call_get_maximum_profit_summary ==
    /\ Outcome("get_maximum_profit_summary",
               Returns(get_maximum_profit_summary(prices_df)))
    /\ UNCHANGED <<trades_in, trades_columns, prices_in, trades_df, prices_df,
                   trade_analytics, ledger_runs>>
    /\ UNCHANGED ledgerVars

ProfitNext ==
    \/ Call_find_maximum_profit_dates
    \/ Call_calculate_max_profit_vectorized
    \/ Call_get_maximum_profit_summary

ProfitSpec == ProfitInit /\ [][ProfitNext]_vars

\* ---------------------------------------------------------- InstanceSpec
\* the trades the caller may pass to an instance on which the five public
\* methods are called in any order
FewTradeTables == SeqsUpTo(TradeRows, MaxTradeRows - 2)

\* PnLAnalytics(trades, prices)
InstanceInit ==
    /\ trades_in \in FewTradeTables
    /\ prices_in \in PriceTables
    /\ trades_columns = TradeColumns
    /\ trades_df = init_trades_df(trades_in)
    /\ prices_df = init_prices_df(prices_in)
    /\ trade_analytics = None
    /\ ledger_runs = 0
    /\ called = "__init__"
    /\ arguments = <<>>
    /\ returned = <<>>
    /\ raised = ""
    /\ NoLedger

InstanceNext ==
    \/ Call_calculate_trade_analytics
    \/ Call_create_resampled_prices
    \/ Call_pnl_history
    \/ Call_find_maximum_profit_dates
    \/ Call_get_maximum_profit_summary

InstanceSpec == InstanceInit /\ [][InstanceNext]_vars

\* ----------------------------------------------------------- ColumnsSpec
\* the columns of a trades table that has the date and the ticker and may
\* lack the quantity, the price, or both
TradeColumnSets ==
    {TradeColumns \ absent : absent \in SUBSET {"quantity", "price"}}

\* the row with the given columns only
Project(row, columns) == [c \in columns |-> row[c]]

\* PnLAnalytics(trades, prices) with a trades table of these columns
ColumnsInit ==
    /\ trades_columns \in TradeColumnSets
    /\ trades_in \in {[i \in 1..Len(t) |-> Project(t[i], trades_columns)] :
                         t \in FewTradeTables}
    /\ prices_in \in PriceTables
    /\ LET self == PnLAnalytics(DataFrame(trades_columns, trades_in),
                                prices_in).rows
       IN  /\ trades_df = self.trades_df
           /\ prices_df = self.prices_df
    /\ trade_analytics = None
    /\ ledger_runs = 0
    /\ called = "__init__"
    /\ arguments = <<>>
    /\ returned = <<>>
    /\ raised = ""
    /\ NoLedger

ColumnsSpec == ColumnsInit /\ [][Next]_vars

\* ------------------------------------------------------------ RouterSpec
\* the rows of trade_data and of stock_prices; no instance outlives a request
RouterInit ==
    /\ trades_in \in FewTradeTables
    /\ trades_columns = TradeColumns
    /\ prices_in \in PriceTables
    /\ trades_df = <<>>
    /\ prices_df = <<>>
    /\ trade_analytics = None
    /\ ledger_runs = 0
    /\ called = ""
    /\ arguments = <<>>
    /\ returned = <<>>
    /\ raised = ""
    /\ NoLedger

\* GET /max_profit, with the query parameter ticker or without it
Get_max_profit ==
    /\ \E ticker \in Tickers \cup {NoTicker} :
          LET r == get_maximum_profit_data(ticker, trades_in, prices_in)
          IN  /\ called' = "GET /max_profit"
              /\ arguments' = [ticker |-> ticker]
              /\ raised' = r.raised
              /\ returned' = r.rows
    /\ UNCHANGED <<trades_in, trades_columns, prices_in, trades_df, prices_df,
                   trade_analytics, ledger_runs>>
    /\ UNCHANGED ledgerVars

RouterNext == Get_max_profit

RouterSpec == RouterInit /\ [][RouterNext]_vars

\* ------------------------------------------------------------ LedgerSpec
LedgerInit ==
    /\ NoLedger
    /\ NoEngine

\* one iteration of "for _, trade in group_df.iterrows()"
Iterate ==
    /\ Len(results) < MaxTrades
    /\ \E trade_shares \in Shares, trade_price \in Prices :
          LET r == process_trade(position_size, position_basis,
                                 trade_shares, Num(trade_price))
          IN  /\ position_size' = r.position_size
              /\ position_basis' = r.position_basis
              /\ results' = Append(results,
                     [shares |-> trade_shares, price |-> trade_price]
                        @@ analytics_columns(r))
    /\ UNCHANGED engineVars

LedgerNext == Iterate

LedgerSpec == LedgerInit /\ [][LedgerNext]_vars

\* the ledger state before row i of results
SizeBefore(i) == IF i = 1 THEN 0 ELSE results[i - 1].position_size_after_trade

BasisBefore(i) == IF i = 1 THEN Zero ELSE results[i - 1].position_basis_after_trade

Rows == 1..Len(results)

\* the loop variables are what the last row recorded
LedgerTypeOK ==
    /\ position_size \in Int
    /\ Len(results) > 0 =>
          /\ position_size = results[Len(results)].position_size_after_trade
          /\ position_basis = results[Len(results)].position_basis_after_trade

\* ------------------------------------------------- the ledger's claims
\* (all of them are checked under LedgerSpec)

\* C1: a trade whose quantity q has the sign of the non-zero position pos
\* sets the basis to (|pos|*basis + |q|*p) / (|pos| + |q|), the position to
\* pos + q, and records realized_pnl = 0.
C1_AddingTradeAveragesBasis ==
    \A i \in Rows :
        LET q == results[i].shares
            p == results[i].price
            pos == SizeBefore(i)
            b == BasisBefore(i)
        IN  ((pos > 0 /\ q > 0) \/ (pos < 0 /\ q < 0)) =>
               /\ results[i].position_basis_after_trade =
                     Rat(Abs(pos) * b[1] + Abs(q) * p * b[2],
                            b[2] * (Abs(pos) + Abs(q)))
               /\ results[i].position_size_after_trade = pos + q
               /\ results[i].realized_pnl = Zero

\* a long position was added to at another price: the basis is a true average
C1_Witness ==
    \E i \in Rows :
        /\ SizeBefore(i) > 0
        /\ results[i].shares > 0
        /\ results[i].position_basis_after_trade # BasisBefore(i)
        /\ results[i].position_basis_after_trade # Num(results[i].price)
        /\ results[i].position_basis_after_trade[2] > 1

\* C2: a trade q < 0 on a long position pos > 0 with basis b at price p
\* records realized_pnl = (p - b) * min(pos, |q|) and sets pos to pos + q;
\* the basis is then p if the position flipped to short, 0 if it is flat,
\* and b if it is still long.
C2_SellFromLong ==
    \A i \in Rows :
        LET q == results[i].shares
            p == results[i].price
            pos == SizeBefore(i)
            b == BasisBefore(i)
        IN  (pos > 0 /\ q < 0) =>
               /\ results[i].realized_pnl =
                     Rat((p * b[2] - b[1]) * Min(pos, Abs(q)), b[2])
               /\ results[i].position_size_after_trade = pos + q
               /\ results[i].position_basis_after_trade =
                     IF pos + q < 0 THEN Num(p)
                     ELSE IF pos + q = 0 THEN Zero
                     ELSE b

\* a sale larger than the long position, at a profit or a loss
C2_Witness ==
    \E i \in Rows :
        /\ SizeBefore(i) > 0
        /\ results[i].shares < 0
        /\ results[i].position_size_after_trade < 0
        /\ results[i].realized_pnl # Zero

\* C3: a trade q > 0 on a short position pos < 0 with basis b at price p
\* records realized_pnl = (b - p) * min(|pos|, q) and sets pos to pos + q;
\* the basis is then p if the position flipped to long, 0 if it is flat,
\* and b if it is still short.
C3_CoverShort ==
    \A i \in Rows :
        LET q == results[i].shares
            p == results[i].price
            pos == SizeBefore(i)
            b == BasisBefore(i)
        IN  (pos < 0 /\ q > 0) =>
               /\ results[i].realized_pnl =
                     Rat((b[1] - p * b[2]) * Min(Abs(pos), q), b[2])
               /\ results[i].position_size_after_trade = pos + q
               /\ results[i].position_basis_after_trade =
                     IF pos + q > 0 THEN Num(p)
                     ELSE IF pos + q = 0 THEN Zero
                     ELSE b

\* a cover larger than the short position, at a profit or a loss
C3_Witness ==
    \E i \in Rows :
        /\ SizeBefore(i) < 0
        /\ results[i].shares > 0
        /\ results[i].position_size_after_trade > 0
        /\ results[i].realized_pnl # Zero

\* C4: after every trade (zero quantities included) a flat position has a
\* zero basis: position_size_after_trade = 0 implies
\* position_basis_after_trade = 0.
C4_FlatMeansZeroBasis ==
    \A i \in Rows :
        results[i].position_size_after_trade = 0 =>
            results[i].position_basis_after_trade = Zero

\* C5, as stated: realized_pnl is nonzero only if the trade leaves the
\* absolute position size smaller than before.
C5_RealizedOnlyWhenSizeShrinks ==
    \A i \in Rows :
        results[i].realized_pnl # Zero =>
            Abs(results[i].position_size_after_trade) < Abs(SizeBefore(i))

\* C5, amended: realized_pnl is nonzero only if the trade closes shares of
\* an existing position (the position before is not flat and the quantity has
\* the opposite sign), whatever the size it leaves; a trade from flat and a
\* trade with the sign of the position always record realized_pnl = 0.
C5_RealizedOnlyWhenClosing ==
    \A i \in Rows :
        LET q == results[i].shares
            pos == SizeBefore(i)
        IN  /\ results[i].realized_pnl # Zero =>
                  ((pos > 0 /\ q < 0) \/ (pos < 0 /\ q > 0))
            /\ (pos = 0 \/ (pos > 0 /\ q > 0) \/ (pos < 0 /\ q < 0)) =>
                  results[i].realized_pnl = Zero

\* a trade that flips the position and leaves it no smaller than before,
\* with a nonzero realized P&L; and a short that was added to
C5_Witness ==
    /\ \E i \in Rows :
          /\ results[i].realized_pnl # Zero
          /\ Abs(results[i].position_size_after_trade) >= Abs(SizeBefore(i))
    /\ \E i \in Rows :
          /\ SizeBefore(i) < 0
          /\ results[i].shares < 0
          /\ BasisBefore(i) # Num(results[i].price)

\* C6: from a flat ledger, a trade of s shares at p_open followed by a trade
\* of -s shares at p_close leaves position 0 and basis 0, and the second
\* trade realizes (p_close - p_open) * |s| when s > 0 and
\* (p_open - p_close) * |s| when s < 0.
C6_RoundTrip ==
    \A i \in Rows :
        LET s == results[i].shares
            p_open == results[i].price
        IN  (i + 1 \in Rows /\ SizeBefore(i) = 0 /\ s # 0
               /\ results[i + 1].shares = 0 - s) =>
               LET p_close == results[i + 1].price
               IN  /\ results[i + 1].position_size_after_trade = 0
                   /\ results[i + 1].position_basis_after_trade = Zero
                   /\ results[i + 1].realized_pnl =
                         IF s > 0 THEN Num((p_close - p_open) * Abs(s))
                         ELSE Num((p_open - p_close) * Abs(s))

\* a round trip that made or lost money
C6_Witness ==
    \E i \in Rows :
        /\ i + 1 \in Rows
        /\ SizeBefore(i) = 0
        /\ results[i].shares # 0
        /\ results[i + 1].shares = 0 - results[i].shares
        /\ results[i + 1].realized_pnl # Zero
        /\ results[i + 1].position_size_after_trade = 0

\* ------------------------------------------------- the engine's claims
\* (all of them are checked under Spec)

\* what a trade row carries besides its date and ticker
Execution(row) == <<row.shares, row.price>>

InputExecution(row) == <<row.quantity, row.price>>

\* the rows of table df dated d, each reduced by the operator Of
OnDate(df, d, Of(_)) ==
    LET rows == SelectSeq(df, LAMBDA row : row.trade_date = d)
    IN  [i \in 1..Len(rows) |-> Of(rows[i])]

DatesOf(df) == {df[i].trade_date : i \in 1..Len(df)}

Chronological(df) ==
    \A i \in 1..(Len(df) - 1) : df[i].trade_date <= df[i + 1].trade_date

\* C7: whatever the order of the input rows, the ledger folds the trades of a
\* ticker in ascending trade_date order, and the trades of one ticker and one
\* date in the order they have in the input.
C7_FoldOrder ==
    trade_analytics.computed =>
        \A t \in Tickers :
            LET out == group_of(trade_analytics.rows, t)
                inp == group_of(trades_in, t)
            IN  /\ Chronological(out)
                /\ \A d \in DatesOf(inp) \cup DatesOf(out) :
                      OnDate(out, d, Execution) = OnDate(inp, d, InputExecution)
                \* the rows are in the order the fold met them
                /\ \A i \in 1..Len(out) :
                      out[i].position_size_after_trade =
                          out[i].shares +
                          (IF i = 1 THEN 0
                           ELSE out[i - 1].position_size_after_trade)

\* two different trades of one ticker and one date, with rows of an earlier
\* ticker and of a later date between and after them in the input: both
\* sorts move rows
C7_Witness ==
    /\ trade_analytics.computed
    /\ Len(trades_in) = 3
    /\ trades_in[1].ticker = "GOOG" /\ trades_in[3].ticker = "GOOG"
    /\ trades_in[1].trade_date = 2 /\ trades_in[3].trade_date = 2
    /\ trades_in[1].quantity # trades_in[3].quantity
    /\ trades_in[2].ticker = "AAPL" /\ trades_in[2].trade_date = 3
    /\ trades_df[3].ticker = "AAPL"
    /\ trade_analytics.rows[1].ticker = "AAPL"
    /\ Execution(trade_analytics.rows[2]) = InputExecution(trades_in[1])
    /\ Execution(trade_analytics.rows[3]) = InputExecution(trades_in[3])

\* a trade row, whole
Trade(row) == <<row.trade_date, row.ticker, row.shares, row.price>>

InputTrade(row) == <<row.trade_date, row.ticker, row.quantity, row.price>>

\* how many rows of df the operator Of reduces to v
Count(df, Of(_), v) == Cardinality({i \in 1..Len(df) : Of(df[i]) = v})

\* the table holds every input trade as often as the input does, and each
\* row has the three new columns, and each ticker's rows are chronological
OneRowPerTrade(df) ==
    /\ Len(df) = Len(trades_in)
    /\ \A i \in 1..Len(trades_in) :
          Count(df, Trade, InputTrade(trades_in[i])) =
              Count(trades_in, InputTrade, InputTrade(trades_in[i]))
    /\ \A i \in 1..Len(df) :
          {"position_size_after_trade", "position_basis_after_trade",
           "realized_pnl"} \subseteq DOMAIN df[i]
    /\ \A t \in Tickers : Chronological(group_of(df, t))

\* C8: calculate_trade_analytics returns exactly one row per input trade, none
\* dropped or duplicated, each with the trade's fields and the three new
\* columns, each ticker's rows in chronological order.
C8_OneRowPerTrade ==
    called = "calculate_trade_analytics" =>
        /\ raised = ""
        /\ OneRowPerTrade(returned)

\* C8, for the record: the statement holds of every call that returns, and
\* the call returns whenever the trades table has a row
C8_OneRowPerTradeUnlessEmpty ==
    called = "calculate_trade_analytics" =>
        /\ raised = "" <=> trades_in # <<>>
        /\ raised = "" => OneRowPerTrade(returned)

\* the tickers of the prices table and the calendar of each
PricedTickers == {prices_in[i].ticker : i \in 1..Len(prices_in)}

PriceDates(t) == DatesOf(group_of(prices_in, t))

FirstDate(t) == CHOOSE d \in PriceDates(t) : \A e \in PriceDates(t) : d <= e

LastDate(t) == CHOOSE d \in PriceDates(t) : \A e \in PriceDates(t) : e <= d

\* the rows of the returned table for ticker t and date d
RowsFor(t, d) ==
    {i \in 1..Len(returned) :
        returned[i].ticker = t /\ returned[i].trade_date = d}

\* C9: pnl_history emits exactly one row per ticker and calendar date from the
\* ticker's first to its last observed price date, for any trade input, a
\* ticker with two or more trades on one date included.
C9_OneRowPerTickerDate ==
    (called = "pnl_history" /\ raised = "") =>
        /\ \A t \in PricedTickers :
              \A d \in FirstDate(t)..LastDate(t) : Cardinality(RowsFor(t, d)) = 1
        /\ \A i \in 1..Len(returned) :
              /\ returned[i].ticker \in PricedTickers
              /\ returned[i].trade_date \in
                    FirstDate(returned[i].ticker)..LastDate(returned[i].ticker)

TradedTickers == {trades_in[i].ticker : i \in 1..Len(trades_in)}

\* C10: with a non-empty prices table, pnl_history returns normally when the
\* trades table has no rows, or none for a ticker that has prices, and every
\* row of a ticker without trades has a zero position, basis, realized,
\* unrealized and total P&L.
C10_NoTradesStillReturns ==
    (called = "pnl_history" /\ prices_in # <<>>) =>
        /\ raised = ""
        /\ \A i \in 1..Len(returned) :
              returned[i].ticker \notin TradedTickers =>
                  /\ returned[i].position_size_after_trade = Zero
                  /\ returned[i].position_basis_after_trade = Zero
                  /\ returned[i].realized_pnl = Zero
                  /\ returned[i].unrealized_pnl = Zero
                  /\ returned[i].total_pnl = Zero

\* the rows of the trade analytics for ticker t dated before d, in the order
\* the ledger folded them
EarlierTrades(t, d) ==
    SelectSeq(trade_analytics.rows,
              LAMBDA r : r.ticker = t /\ r.trade_date < d)

TradedOn(t, d) ==
    \E i \in 1..Len(trades_in) :
        trades_in[i].ticker = t /\ trades_in[i].trade_date = d

\* row carries the ledger state that the trades in earlier left, zero if
\* there is none
CarriesLastOf(row, earlier) ==
    IF earlier = <<>>
    THEN /\ row.position_size_after_trade = Zero
         /\ row.position_basis_after_trade = Zero
         /\ row.realized_pnl = Zero
    ELSE LET last == earlier[Len(earlier)]
         IN  /\ row.position_size_after_trade =
                    Num(last.position_size_after_trade)
             /\ row.position_basis_after_trade = last.position_basis_after_trade
             /\ row.realized_pnl = last.realized_pnl

\* C11: in the table of pnl_history, a row of a ticker and a date on which
\* the ticker has no trade carries position_size_after_trade,
\* position_basis_after_trade and realized_pnl of the ticker's most recent
\* earlier trade, never those of another ticker, and zero on the dates before
\* the ticker's first trade.
C11_ForwardFill ==
    (called = "pnl_history" /\ raised = "") =>
        \A i \in 1..Len(returned) :
            ~TradedOn(returned[i].ticker, returned[i].trade_date) =>
                CarriesLastOf(returned[i],
                    EarlierTrades(returned[i].ticker, returned[i].trade_date))

\* C11, for the record: the statement holds of the trades that are dated on
\* or after the ticker's first observed price date
C11_ForwardFillWithinCalendar ==
    (called = "pnl_history" /\ raised = "") =>
        \A i \in 1..Len(returned) :
            ~TradedOn(returned[i].ticker, returned[i].trade_date) =>
                CarriesLastOf(returned[i],
                    SelectSeq(EarlierTrades(returned[i].ticker,
                                            returned[i].trade_date),
                        LAMBDA r : FirstDate(r.ticker) <= r.trade_date))

\* C12: every row of the table of pnl_history has, on the values it is
\* emitted with, unrealized_pnl = (close_price - position_basis_after_trade)
\* * position_size_after_trade and total_pnl = realized_pnl + unrealized_pnl.
C12_PnLIdentities ==
    (called = "pnl_history" /\ raised = "") =>
        \A i \in 1..Len(returned) :
            /\ returned[i].unrealized_pnl =
                   RMul(RSub(returned[i].close_price,
                             returned[i].position_basis_after_trade),
                        returned[i].position_size_after_trade)
            /\ returned[i].total_pnl =
                   RAdd(returned[i].realized_pnl, returned[i].unrealized_pnl)

\* a row of a date without a trade that carries an open position and a
\* realized P&L, with a close price away from the basis
C12_Witness ==
    /\ called = "pnl_history" /\ raised = ""
    /\ \E i \in 1..Len(returned) :
          /\ ~TradedOn(returned[i].ticker, returned[i].trade_date)
          /\ returned[i].realized_pnl # Zero
          /\ returned[i].unrealized_pnl # Zero
          /\ returned[i].total_pnl # returned[i].unrealized_pnl

\* the five columns of pnl_history that hold the ledger state and the P&L
FilledColumns ==
    {"position_size_after_trade", "position_basis_after_trade",
     "realized_pnl", "unrealized_pnl", "total_pnl"}

\* the merge leaves the ledger columns of ticker t missing up to date d: the
\* ticker has no trade from its first observed price date to d
NoTradeYet(t, d) ==
    \A i \in 1..Len(trades_in) :
        trades_in[i].ticker = t =>
            ~(FirstDate(t) <= trades_in[i].trade_date
                 /\ trades_in[i].trade_date <= d)

\* C13: no row of the table of pnl_history has a missing or non-finite
\* position_size_after_trade, position_basis_after_trade, realized_pnl,
\* unrealized_pnl or total_pnl, whatever the inputs, a ticker with prices and
\* without trades included: such a value is emitted as 0.
C13_NoMissingValues ==
    (called = "pnl_history" /\ raised = "") =>
        \A i \in 1..Len(returned) :
            /\ \A c \in FilledColumns : ~IsNaN(returned[i][c])
            /\ NoTradeYet(returned[i].ticker, returned[i].trade_date) =>
                  \A c \in FilledColumns : returned[i][c] = Zero

\* the table has rows of a ticker that never trades, all zero, beside a row
\* of a ticker that holds a position
C13_Witness ==
    /\ called = "pnl_history" /\ raised = ""
    /\ \E i, j \in 1..Len(returned) :
          /\ returned[i].ticker \notin TradedTickers
          /\ \A c \in FilledColumns : returned[i][c] = Zero
          /\ returned[j].ticker \in TradedTickers
          /\ returned[j].position_size_after_trade # Zero

\* the rows of the returned table for ticker t
RowsOf(t) == {i \in 1..Len(returned) : returned[i].ticker = t}

\* C14: create_resampled_prices returns, for each ticker by itself, exactly
\* one row for every calendar day from the ticker's first to its last
\* observed date, and no row outside that range; a ticker with one
\* observation has exactly one row.
C14_OneRowPerDay ==
    called = "create_resampled_prices" =>
        /\ \A t \in PricedTickers :
              /\ \A d \in FirstDate(t)..LastDate(t) :
                    Cardinality(RowsFor(t, d)) = 1
              /\ Cardinality(RowsOf(t)) = LastDate(t) - FirstDate(t) + 1
              /\ Cardinality(PriceDates(t)) = 1 => Cardinality(RowsOf(t)) = 1
        /\ \A i \in 1..Len(returned) :
              /\ returned[i].ticker \in PricedTickers
              /\ returned[i].trade_date \in
                    FirstDate(returned[i].ticker)..LastDate(returned[i].ticker)

\* two tickers with one observation each, on dates two days apart: each has
\* its own range of one day
C14_Witness ==
    /\ called = "create_resampled_prices"
    /\ PricedTickers = Tickers
    /\ \E t, u \in Tickers : FirstDate(t) + 2 = FirstDate(u)
    /\ Len(returned) = 2

\* a ticker with a day between its two observations: the range has a day that
\* was not observed
C14_WitnessGap ==
    /\ called = "create_resampled_prices"
    /\ \E t \in PricedTickers :
          /\ Cardinality(PriceDates(t)) = 2
          /\ LastDate(t) = FirstDate(t) + 2
    /\ Len(returned) = 3

\* the close price observed for ticker t on date d
ObservedClose(t, d) ==
    LET i == CHOOSE i \in 1..Len(prices_in) :
                 prices_in[i].ticker = t /\ prices_in[i].trade_date = d
    IN  Num(prices_in[i].close_price)

prices_of(resampled_prices) ==
    [i \in 1..Len(resampled_prices) |->
        [trade_date |-> resampled_prices[i].trade_date,
         ticker |-> resampled_prices[i].ticker,
         close_price |-> resampled_prices[i].close_price[1]]]

\* every ticker of the prices table has an observation on every day from its
\* first to its last
Gapless ==
    \A t \in PricedTickers : PriceDates(t) = FirstDate(t)..LastDate(t)

\* C16: resampling is idempotent.  create_resampled_prices on a prices table
\* without gaps returns the (ticker, date, close_price) rows of that table,
\* and on the table that a resampling returned it returns that table again.
C16_Idempotent ==
    (called = "create_resampled_prices" /\ raised = "") =>
        /\ Gapless =>
              /\ Len(returned) = Len(prices_in)
              /\ {prices_of(returned)[i] : i \in 1..Len(returned)} =
                     {prices_in[i] : i \in 1..Len(prices_in)}
        /\ create_resampled_prices(init_prices_df(prices_of(returned))) =
               Returns(returned)

\* a table without gaps, two days of one ticker given latest first
C16_Witness ==
    /\ called = "create_resampled_prices" /\ raised = ""
    /\ Gapless
    /\ Len(prices_in) = 2
    /\ prices_in[1].ticker = prices_in[2].ticker
    /\ prices_in[1].trade_date = prices_in[2].trade_date + 1
    /\ prices_in[1].close_price # prices_in[2].close_price
    /\ prices_of(returned) = <<prices_in[2], prices_in[1]>>

\* a table with a gap: the resampling adds a row, and resampling what it
\* returned adds none
C16_WitnessGap ==
    /\ called = "create_resampled_prices" /\ raised = ""
    /\ ~Gapless
    /\ Len(returned) = Len(prices_in) + 1
    /\ create_resampled_prices(init_prices_df(prices_of(returned))).rows =
           returned

\* ------------------------------------------------- claims of ProfitSpec
Maximum(S) == CHOOSE x \in S : \A y \in S : y <= x

Minimum(S) == CHOOSE x \in S : \A y \in S : x <= y

\* the observed dates of ticker t in ascending order, and the close on each
SeriesDates(t) ==
    [k \in 1..Cardinality(PriceDates(t)) |->
        CHOOSE d \in PriceDates(t) :
            Cardinality({e \in PriceDates(t) : e < d}) = k - 1]

SeriesCloses(t) ==
    [k \in 1..Cardinality(PriceDates(t)) |->
        LET i == CHOOSE i \in 1..Len(prices_in) :
                     /\ prices_in[i].ticker = t
                     /\ prices_in[i].trade_date = SeriesDates(t)[k]
        IN  prices_in[i].close_price]

\* the series that _calculate_max_profit_vectorized was called with
ArgumentCloses ==
    [k \in 1..Len(arguments.prices_df) |-> arguments.prices_df[k].close_price]

ArgumentDates ==
    [k \in 1..Len(arguments.prices_df) |-> arguments.prices_df[k].trade_date]

\* the results r of a strategy that the last call returned, each with the
\* closes P and the dates D of the series it is for
ResultsOf(strategy) ==
    IF called = "find_maximum_profit_dates"
    THEN {[P |-> SeriesCloses(returned[k].ticker),
           D |-> SeriesDates(returned[k].ticker),
           r |-> returned[k][strategy]] : k \in 1..Len(returned)}
    ELSE IF /\ called = "_calculate_max_profit_vectorized"
            /\ arguments.strategy = strategy
    THEN {[P |-> ArgumentCloses, D |-> ArgumentDates, r |-> returned]}
    ELSE {}

LongOnlyResults == ResultsOf("long_only")

ShortSaleResults == ResultsOf("short_sale")

\* the best profit of buying on day i and selling on day j, i <= j
BestLong(P) ==
    Maximum({P[p[2]] - P[p[1]] :
                p \in {q \in (1..Len(P)) \X (1..Len(P)) : q[1] <= q[2]}})

\* the profit of selling on day i after buying at the lowest price up to it
Gain(P, i) == P[i] - Minimum({P[j] : j \in 1..i})

\* the result r is the long-only best of the series P on the dates D
LongOnlyBest(P, D, r) ==
    LET sell == Minimum({i \in 1..Len(P) :
                    \A j \in 1..Len(P) : Gain(P, j) <= Gain(P, i)})
        buy == Minimum({i \in 1..sell :
                    \A j \in 1..sell : P[i] <= P[j]})
    IN  /\ r.max_profit = BestLong(P)
        /\ r.sell_date = D[sell] /\ r.sell_price = P[sell]
        /\ r.buy_date = D[buy] /\ r.buy_price = P[buy]
        /\ r.buy_date < r.sell_date

\* C17: long-only, for the chronological prices P of a ticker with two or
\* more observations and a positive best profit: max_profit is the greatest
\* P[sell] - P[buy] over buy <= sell, the sell day is the earliest day i with
\* the greatest P[i] - min(P[0..i]), the buy day is the earliest day of the
\* lowest price up to the sell day, and the buy day is before the sell day.
C17_LongOnly ==
    \A e \in LongOnlyResults :
        (Len(e.P) >= 2 /\ BestLong(e.P) > 0) => LongOnlyBest(e.P, e.D, e.r)

\* the prices of the example, 150 155 160 145 170 as 2 3 4 1 5: buy on day 4,
\* sell on day 5
C17_Witness ==
    /\ called = "find_maximum_profit_dates"
    /\ SeriesCloses("AAPL") = <<2, 3, 4, 1, 5>>
    /\ \E k \in 1..Len(returned) :
          /\ returned[k].ticker = "AAPL"
          /\ returned[k].long_only =
                 [buy_date |-> 4, sell_date |-> 5, max_profit |-> 4,
                  buy_price |-> 1, sell_price |-> 5]

\* two sell days and two buy days of the same profit: the earliest of each
C17_WitnessTie ==
    /\ called = "find_maximum_profit_dates"
    /\ SeriesCloses("AAPL") = <<1, 1, 3, 3>>
    /\ \E k \in 1..Len(returned) :
          /\ returned[k].ticker = "AAPL"
          /\ returned[k].long_only.buy_date = 1
          /\ returned[k].long_only.sell_date = 3

\* the best profit of selling on day i and buying on a later day j
BestShort(P) ==
    Maximum({P[p[1]] - P[p[2]] :
                p \in {q \in (1..Len(P)) \X (1..Len(P)) : q[1] < q[2]}})

\* the profit of selling on day i and buying at the lowest price after it
Cover(P, i) == P[i] - Minimum({P[j] : j \in (i + 1)..Len(P)})

\* the result r is the short-sale best of the series P on the dates D
ShortSaleBest(P, D, r) ==
    LET sell == Minimum({i \in 1..(Len(P) - 1) :
                    \A j \in 1..(Len(P) - 1) : Cover(P, j) <= Cover(P, i)})
        buy == Minimum({i \in (sell + 1)..Len(P) :
                    \A j \in (sell + 1)..Len(P) : P[i] <= P[j]})
    IN  /\ r.max_profit = BestShort(P)
        /\ r.sell_date = D[sell] /\ r.sell_price = P[sell]
        /\ r.buy_date = D[buy] /\ r.buy_price = P[buy]
        /\ r.sell_date < r.buy_date

\* the record of a series without a profit: no dates, no prices, profit 0
NoOpportunity ==
    [buy_date |-> NoValue, sell_date |-> NoValue, max_profit |-> 0,
     buy_price |-> NoValue, sell_price |-> NoValue]

\* a linear implementation: the index of the earliest minimum of P after
\* each day, computed from the last day back
RECURSIVE SuffixMinimumIdx(_, _)
SuffixMinimumIdx(P, i) ==
    IF i = Len(P) - 1 THEN Len(P)
    ELSE LET rest == SuffixMinimumIdx(P, i + 1)
         IN  IF P[i + 1] <= P[rest] THEN i + 1 ELSE rest

\* and one ascending pass over the sell days that keeps the first greatest
\* profit
RECURSIVE LinearPass(_, _, _)
LinearPass(P, i, best) ==
    IF i > Len(P) - 1 THEN best
    ELSE LET buy == SuffixMinimumIdx(P, i)
         IN  LinearPass(P, i + 1,
                 IF P[i] - P[buy] > best.max_profit
                 THEN [max_profit |-> P[i] - P[buy], sell |-> i, buy |-> buy]
                 ELSE best)

LinearShortSale(P, D) ==
    LET best == LinearPass(P, 1, [max_profit |-> 0, sell |-> 1, buy |-> 1])
    IN  IF best.max_profit <= 0
        THEN NoOpportunity
        ELSE [sell_date |-> D[best.sell], buy_date |-> D[best.buy],
              max_profit |-> best.max_profit,
              sell_price |-> P[best.sell], buy_price |-> P[best.buy]]

\* C18: short sale, for the chronological prices P of a ticker with two or
\* more observations and a positive best profit: max_profit is the greatest
\* P[sell] - P[buy] over sell < buy, the sell day is the earliest day i
\* before the last with the greatest P[i] - min(P[i+1..]), the buy day is the
\* earliest day of the lowest price after the sell day, the sell day is
\* before the buy day, and the linear suffix-minimum implementation returns
\* the same result.
C18_ShortSale ==
    \A e \in ShortSaleResults :
        (Len(e.P) >= 2 /\ BestShort(e.P) > 0) =>
            /\ ShortSaleBest(e.P, e.D, e.r)
            /\ LinearShortSale(e.P, e.D) = e.r

\* the prices of the example, 150 155 160 145 170 as 2 3 4 1 5: sell on day
\* 3, buy on day 4
C18_Witness ==
    /\ called = "find_maximum_profit_dates"
    /\ SeriesCloses("AAPL") = <<2, 3, 4, 1, 5>>
    /\ \E k \in 1..Len(returned) :
          /\ returned[k].ticker = "AAPL"
          /\ returned[k].short_sale =
                 [sell_date |-> 3, buy_date |-> 4, max_profit |-> 3,
                  sell_price |-> 4, buy_price |-> 1]

\* two sell days and two buy days of the same profit: the earliest of each
C18_WitnessTie ==
    /\ called = "find_maximum_profit_dates"
    /\ SeriesCloses("AAPL") = <<3, 3, 1, 1>>
    /\ \E k \in 1..Len(returned) :
          /\ returned[k].ticker = "AAPL"
          /\ returned[k].short_sale.sell_date = 1
          /\ returned[k].short_sale.buy_date = 3

\* C19: for every price series and both strategies the max_profit of the
\* result is not negative, and where the best profit that can be made is not
\* positive the result is the record without dates and prices, with
\* max_profit exactly 0.
C19_NoOpportunity ==
    /\ \A e \in LongOnlyResults \cup ShortSaleResults : e.r.max_profit >= 0
    /\ \A e \in LongOnlyResults :
          (Len(e.P) < 1 \/ BestLong(e.P) <= 0) => e.r = NoOpportunity
    /\ \A e \in ShortSaleResults :
          (Len(e.P) < 2 \/ BestShort(e.P) <= 0) => e.r = NoOpportunity

\* falling prices, 100 90 80 as 3 2 1: nothing to gain long, and short the
\* sale of day 1 covered on day 3
C19_Witness ==
    /\ called = "find_maximum_profit_dates"
    /\ SeriesCloses("AAPL") = <<3, 2, 1>>
    /\ \E k \in 1..Len(returned) :
          /\ returned[k].ticker = "AAPL"
          /\ returned[k].long_only = NoOpportunity
          /\ returned[k].short_sale =
                 [sell_date |-> 1, buy_date |-> 3, max_profit |-> 2,
                  sell_price |-> 3, buy_price |-> 1]

\* a series of one observation, given to _calculate_max_profit_vectorized
C19_WitnessSingle ==
    /\ called = "_calculate_max_profit_vectorized"
    /\ Len(arguments.prices_df) = 1
    /\ arguments.strategy = "short_sale"
    /\ returned = NoOpportunity

\* C20: the result of find_maximum_profit_dates has a key for a ticker if and
\* only if the ticker has two or more price observations: a ticker with none
\* or one is absent, and a ticker with two or more is present, once, with a
\* long_only and a short_sale entry, also where both profits are 0.
C20_KeysOfTwoOrMore ==
    called = "find_maximum_profit_dates" =>
        /\ \A t \in Tickers :
              Cardinality(RowsOf(t)) =
                  IF Cardinality(PriceDates(t)) >= 2 THEN 1 ELSE 0
        /\ \A k \in 1..Len(returned) :
              /\ returned[k].ticker \in Tickers
              /\ DOMAIN returned[k] = {"ticker", "long_only", "short_sale"}
              /\ DOMAIN returned[k].long_only = DOMAIN NoOpportunity
              /\ DOMAIN returned[k].short_sale = DOMAIN NoOpportunity

\* a ticker of one observation beside a ticker of two at one price: the
\* first is absent, the second present with two records without a profit
C20_Witness ==
    /\ called = "find_maximum_profit_dates"
    /\ Cardinality(PriceDates("AAPL")) = 1
    /\ Cardinality(PriceDates("GOOG")) = 2
    /\ returned = <<[ticker |-> "GOOG", long_only |-> NoOpportunity,
                     short_sale |-> NoOpportunity]>>

\* C21: a call of _calculate_max_profit_vectorized with a strategy that is
\* neither "long_only" nor "short_sale" raises an error, whatever the price
\* series, one of fewer than 2 rows included; it never returns a result.
C21_InvalidStrategyRaises ==
    (/\ called = "_calculate_max_profit_vectorized"
     /\ arguments.strategy \notin {"long_only", "short_sale"}) =>
        raised # ""

\* C21, for the record: the call raises ValueError exactly when the series
\* has 2 rows or more, and returns the record without a profit otherwise
C21_InvalidStrategyRaisesFromTwoRows ==
    (/\ called = "_calculate_max_profit_vectorized"
     /\ arguments.strategy \notin {"long_only", "short_sale"}) =>
        IF Len(arguments.prices_df) >= 2
        THEN raised = "ValueError"
        ELSE raised = "" /\ returned = NoOpportunity

\* the rows of the returned summary for ticker t and the strategy named
SummaryRows(t, strategy) ==
    {i \in 1..Len(returned) :
        returned[i].ticker = t /\ returned[i].strategy = strategy}

\* C22: the summary of get_maximum_profit_summary has one row for each ticker
\* and strategy with a max_profit above 0 and none for a max_profit of 0, and
\* the profit_percentage of a row is max_profit / buy_price * 100 for "Long
\* Only" and max_profit / sell_price * 100 for "Short Sale".
C22_SummaryRows ==
    called = "get_maximum_profit_summary" =>
        /\ \A t \in Tickers :
              LET P == SeriesCloses(t)
              IN  /\ Cardinality(SummaryRows(t, "Long Only")) =
                        IF Len(P) >= 2 /\ BestLong(P) > 0 THEN 1 ELSE 0
                  /\ Cardinality(SummaryRows(t, "Short Sale")) =
                        IF Len(P) >= 2 /\ BestShort(P) > 0 THEN 1 ELSE 0
        /\ \A i \in 1..Len(returned) :
              LET row == returned[i]
                  P == SeriesCloses(row.ticker)
              IN  /\ row.strategy \in {"Long Only", "Short Sale"}
                  /\ row.max_profit > 0
                  /\ row.strategy = "Long Only" =>
                        /\ row.max_profit = BestLong(P)
                        /\ row.profit_percentage =
                               Rat(row.max_profit * 100, row.buy_price)
                  /\ row.strategy = "Short Sale" =>
                        /\ row.max_profit = BestShort(P)
                        /\ row.profit_percentage =
                               Rat(row.max_profit * 100, row.sell_price)

\* the prices 2 3 4 1 5: 4 on a buy at 1 is 400 percent, 3 on a sale at 4 is
\* 75 percent; the second ticker, at one price, has no row
C22_Witness ==
    /\ called = "get_maximum_profit_summary"
    /\ SeriesCloses("AAPL") = <<2, 3, 4, 1, 5>>
    /\ Len(SeriesCloses("GOOG")) = 2
    /\ Len(returned) = 2
    /\ returned[1].strategy = "Long Only"
    /\ returned[1].profit_percentage = Num(400)
    /\ returned[2].strategy = "Short Sale"
    /\ returned[2].profit_percentage = Num(75)

\* ------------------------------------------ more claims of LedgerSpec
\* the sum of realized_pnl, and of quantity * price, over the rows 1..i
RECURSIVE RealizedUpTo(_)
RealizedUpTo(i) ==
    IF i = 0 THEN Zero
    ELSE RAdd(RealizedUpTo(i - 1), results[i].realized_pnl)

RECURSIVE CashUpTo(_)
CashUpTo(i) ==
    IF i = 0 THEN 0
    ELSE CashUpTo(i - 1) + results[i].shares * results[i].price

\* C28: after every prefix of the trades of a ticker, the sum of realized_pnl
\* so far is position_size_after_trade * position_basis_after_trade minus the
\* sum of quantity * price so far; with a flat position it is the net cash
\* flow, minus the sum of quantity * price.
C28_AccountingIdentity ==
    \A i \in Rows :
        /\ RealizedUpTo(i) =
               RSub(RMul(Num(results[i].position_size_after_trade),
                         results[i].position_basis_after_trade),
                    Num(CashUpTo(i)))
        /\ results[i].position_size_after_trade = 0 =>
               RealizedUpTo(i) = Num(0 - CashUpTo(i))

\* three trades: a position with an averaged basis that is not a whole
\* number, then partly closed at a gain or a loss
C28_Witness ==
    /\ Len(results) = 3
    /\ results[2].position_basis_after_trade[2] > 1
    /\ results[3].position_size_after_trade # 0
    /\ results[3].realized_pnl # Zero
    /\ RealizedUpTo(3) = results[3].realized_pnl

\* a round trip: the position is flat again and the realized P&L is the cash
C28_WitnessFlat ==
    /\ Len(results) = 3
    /\ results[2].position_size_after_trade # 0
    /\ results[3].position_size_after_trade = 0
    /\ RealizedUpTo(3) # Zero
    /\ RealizedUpTo(3) = Num(0 - CashUpTo(3))

\* ------------------------------------------------ more claims of Spec
\* row reports the ledger state that the trades in upto left, zero if there
\* is none
ReportsStateAfter(row, upto) ==
    IF upto = <<>>
    THEN /\ row.position_size_after_trade = Zero
         /\ row.position_basis_after_trade = Zero
    ELSE LET last == upto[Len(upto)]
         IN  /\ row.position_size_after_trade =
                    Num(last.position_size_after_trade)
             /\ row.position_basis_after_trade = last.position_basis_after_trade

\* C29: for every ticker and every date d of its price calendar, the
\* position_size_after_trade and position_basis_after_trade that pnl_history
\* reports are the ledger state after the ticker's last trade dated on or
\* before d, zero if there is none, also where trades of the ticker are dated
\* before its first observed price date.
C29_ReportsLedgerState ==
    (called = "pnl_history" /\ raised = "") =>
        \A i \in 1..Len(returned) :
            ReportsStateAfter(returned[i],
                EarlierTrades(returned[i].ticker, returned[i].trade_date + 1))

\* C29, for the record: the statement holds where no trade of the ticker is
\* dated before the ticker's first observed price date and no two trades of
\* the ticker have one date
C29_ReportsLedgerStateWithinCalendar ==
    (called = "pnl_history" /\ raised = "") =>
        \A i \in 1..Len(returned) :
            LET t == returned[i].ticker
                mine == group_of(trades_in, t)
            IN  (/\ \A j \in 1..Len(mine) : FirstDate(t) <= mine[j].trade_date
                 /\ \A j, k \in 1..Len(mine) :
                       mine[j].trade_date = mine[k].trade_date => j = k) =>
                    ReportsStateAfter(returned[i],
                        EarlierTrades(t, returned[i].trade_date + 1))

\* C26: the rows that pnl_history returns are in ascending order of (ticker,
\* date), whatever the order of the rows of the trades and of the prices.
C26_SortedByTickerDate ==
    (called = "pnl_history" /\ raised = "") =>
        \A i \in 1..(Len(returned) - 1) :
            \/ TickerRank(returned[i].ticker) < TickerRank(returned[i + 1].ticker)
            \/ /\ returned[i].ticker = returned[i + 1].ticker
               /\ returned[i].trade_date <= returned[i + 1].trade_date

\* the prices of the later ticker come first in the input and are dated
\* first, and the trades are given latest first: the table starts with the
\* earlier ticker
C26_Witness ==
    /\ called = "pnl_history" /\ raised = ""
    /\ Len(prices_in) = 2 /\ Len(trades_in) = 2
    /\ prices_in[1].ticker = "GOOG" /\ prices_in[2].ticker = "AAPL"
    /\ prices_in[1].trade_date < prices_in[2].trade_date
    /\ trades_in[1].trade_date > trades_in[2].trade_date
    /\ Len(returned) = 2
    /\ returned[1].ticker = "AAPL" /\ returned[2].ticker = "GOOG"

\* what method returns or raises as the first call on a new instance built
\* from the tables trades and prices
FirstCall(method, trades, prices) ==
    LET analytics == calculate_pnl_for_multiple_tickers(init_trades_df(trades))
        resampled_prices == create_resampled_prices(init_prices_df(prices))
    IN  CASE method = "calculate_trade_analytics" -> analytics
          [] method = "create_resampled_prices" -> resampled_prices
          [] method = "pnl_history" ->
                IF analytics.raised # "" THEN analytics
                ELSE IF resampled_prices.raised # "" THEN resampled_prices
                ELSE Returns(history_rows(resampled_prices.rows, analytics.rows))
          [] method = "find_maximum_profit_dates" ->
                Returns(find_maximum_profit_dates(init_prices_df(prices)))
          [] method = "get_maximum_profit_summary" ->
                Returns(get_maximum_profit_summary(init_prices_df(prices)))

\* the rows of ticker t in the returned table are what the same call returns
\* on the input that has the trades and the prices of t and nothing else
AloneAsAmongOthers(t) ==
    LET alone == FirstCall(called, group_of(trades_in, t), group_of(prices_in, t))
    IN  /\ alone.raised = ""
        /\ alone.rows = group_of(returned, t)

\* C25: the trade-analytics rows, the resampled price rows, the PnL-history
\* rows and the max-profit result of a ticker are the same for any two inputs
\* that agree on the trades and the prices of that ticker, whatever the rows
\* of the other tickers and wherever they stand among the ticker's rows: the
\* same as on the input without the other tickers.
C25_TickerIndependence ==
    (/\ called \in {"calculate_trade_analytics", "create_resampled_prices",
                    "pnl_history", "find_maximum_profit_dates"}
     /\ raised = "") =>
        \A t \in TradedTickers \cup PricedTickers : AloneAsAmongOthers(t)

\* C25, for the record: the statement holds of a ticker for which the call
\* has a row to read, a trade for the trade analytics, a price for the
\* resampling and the maximum profit, both for the history
C25_TickerIndependenceWithRows ==
    (/\ called \in {"calculate_trade_analytics", "create_resampled_prices",
                    "pnl_history", "find_maximum_profit_dates"}
     /\ raised = "") =>
        \A t \in Tickers :
            (/\ called \in {"calculate_trade_analytics", "pnl_history"}
                   => t \in TradedTickers
             /\ called # "calculate_trade_analytics" => t \in PricedTickers)
                => AloneAsAmongOthers(t)

\* C23: over any sequence of calls of calculate_trade_analytics and
\* pnl_history on one instance, the ledger computation runs at most one time.
C23_LedgerRunsOnce == ledger_runs <= 1

\* C23, for the record: pnl_history does not run the ledger of an instance
\* whose trade-analytics table is computed
C23_HistoryReusesTheTable ==
    [][(called' = "pnl_history" /\ trade_analytics.computed)
           => ledger_runs' = ledger_runs]_vars

\* C23, for the record: the ledger has run at most one time on an instance
\* whose trade-analytics table is computed (violated as well: the second
\* run does not need the first one to have raised)
C23_ComputedByOneRun == trade_analytics.computed => ledger_runs <= 1

\* the last call has the outcome of the same call made first on a fresh
\* instance built from the caller's tables
SameAsFirstCall ==
    called \in {"calculate_trade_analytics", "create_resampled_prices",
                "pnl_history", "find_maximum_profit_dates",
                "get_maximum_profit_summary"} =>
        [raised |-> raised, rows |-> returned]
            = FirstCall(called, trades_in, prices_in)

\* C24: in any sequence of calls of calculate_trade_analytics,
\* create_resampled_prices, pnl_history, find_maximum_profit_dates and
\* get_maximum_profit_summary on one instance, each call returns what the
\* same call returns as the first call on a fresh instance built from the
\* same inputs, and the caller's trade and price tables are left unchanged.
C24_Stateless ==
    /\ []SameAsFirstCall
    /\ [][trades_in' = trades_in /\ prices_in' = prices_in]_vars

\* C24: pnl_history has returned a table from the cached trade analytics
\* after calls of the other methods
C24_Witness ==
    /\ called = "pnl_history"
    /\ raised = ""
    /\ ledger_runs = MaxRuns
    /\ Len(returned) > 1
    /\ \E i \in 1..Len(returned) : returned[i].position_size_after_trade # Zero

\* the trades table has neither a quantity or shares column nor a price
\* column
NoQuantityNoPrice == trades_columns \cap {"quantity", "shares", "price"} = {}

\* C27: when the trade table has no quantity/shares and price columns,
\* pnl_history still returns a table, one row per ticker and calendar date
\* with its close_price, in which unrealized_pnl and total_pnl are 0.
C27_ToleratesAbsentColumns ==
    (called = "pnl_history" /\ NoQuantityNoPrice) =>
        /\ raised = ""
        /\ Len(returned) = Len(create_resampled_prices(prices_df).rows)
        /\ \A i \in 1..Len(returned) :
              /\ returned[i].close_price
                    = create_resampled_prices(prices_df).rows[i].close_price
              /\ returned[i].unrealized_pnl = Zero
              /\ returned[i].total_pnl = Zero

\* C27, for the record: pnl_history raises on every trades table that lacks
\* the quantity or the price, KeyError when the table has a row and the
\* ValueError of C10 when it has none
C27_AbsentColumnRaises ==
    (called = "pnl_history" /\ trades_columns # TradeColumns) =>
        raised = IF trades_in # <<>> THEN "KeyError" ELSE "ValueError"

\* C27, for the record: on a table of the four columns the constructor is
\* the constructor of Spec
C27_InitOfFourColumns ==
    trades_columns = TradeColumns =>
        /\ trades_df = init_trades_df(trades_in)
        /\ PnLAnalytics(DataFrame(TradeColumns, trades_in), prices_in)
              = Returns([trades_df |-> trades_df, prices_df |-> prices_df])

\* C30: GET /max_profit with at least one stored price and no stored trade
\* completes without error and returns the max-profit summary computed from
\* the prices alone; it does not answer with HTTP 500.
C30_MaxProfitWithoutTrades ==
    (called = "GET /max_profit" /\ prices_in # <<>> /\ trades_in = <<>>) =>
        LET summary == get_maximum_profit_summary(init_prices_df(prices_in))
        IN  /\ raised # HTTP500
            /\ returned = to_dict_records(
                   IF arguments.ticker = NoTicker THEN summary
                   ELSE group_of(summary, arguments.ticker))

\* C30, for the record: with no stored trade and a stored price every
\* request is answered with HTTP 500
C30_AlwaysFails ==
    (called = "GET /max_profit" /\ prices_in # <<>> /\ trades_in = <<>>) =>
        raised = HTTP500

\* C30, for the record: with a stored trade the request is answered with the
\* summary, unless a ticker is asked for and the summary has no row
C30_WithTrades ==
    (called = "GET /max_profit" /\ prices_in # <<>> /\ trades_in # <<>>) =>
        LET summary == get_maximum_profit_summary(init_prices_df(prices_in))
        IN  IF arguments.ticker # NoTicker /\ summary = <<>>
            THEN raised = HTTP500
            ELSE /\ raised = ""
                 /\ returned = to_dict_records(
                        IF arguments.ticker = NoTicker THEN summary
                        ELSE group_of(summary, arguments.ticker))

====
